---- MODULE Spec2Model ----
(***************************************************************************)
(* Model of src/installer/diff.rs: the VersionDiff value, its queries      *)
(* (get_size, unpacking_path), download_to, and the installation           *)
(* transaction install / install_to / install_to_by with its patch pass    *)
(* (hdifffiles.txt) and its cleanup pass (deletefiles.txt).                *)
(*                                                                         *)
(* Paths and file lines are strings, as in the code.  A file's content is  *)
(* the sequence of its lines.  The file system is a function from the      *)
(* absolute paths that exist to their contents.                            *)
(***************************************************************************)
EXTENDS Integers, Sequences, FiniteSets, TLC

VARIABLES
    diff,      \* the VersionDiff value the methods are called on (self)
    cwd,       \* the process's current working directory
    archive,   \* what the archive behind diff's url unpacks to (remote state)
    fs,        \* the file system: absolute path -> content (sequence of lines)
    pc,        \* position inside the running method, "idle" between calls
    call,      \* the running (or last) call: method and arguments
    params,    \* the path and temp_path install_to_by was entered with, if it was
    ret,       \* the value the last call returned
    files,     \* install_to_by: the lines read from the control file in hand
    idx,       \* install_to_by: index in files of the line being processed
    snap,      \* fs when the call began
    snapInst,  \* fs when Installer::install returned
    instOk,    \* whether Installer::install completed its download and unpack
    invoked,   \* the collaborators invoked by the call
    log,       \* the file-system and patch-engine events of the call
    prev,      \* summary of the previous install* call
    callsLeft, \* number of calls the caller still makes
    parked     \* the variables of a second, concurrent caller that is not
               \* running at the moment (None when there is one caller)

vars == <<diff, cwd, archive, fs, pc, call, params, ret, files, idx, snap,
          snapInst, instOk, invoked, log, prev, callsLeft, parked>>

---------------------------------------------------------------------------
(* Bounds of the model *)

\* longest control file, in lines
MaxEntries == 2
\* number of method calls in one behaviour of SpecRetry and SpecQuery
MaxCalls == 2
\* largest byte count of a size field
MaxSize == 2
\* largest version number
MaxVersion == 2

---------------------------------------------------------------------------
(* Option<T> *)

None == <<>>
Some(x) == <<x>>
IsSome(o) == Len(o) = 1
Unwrap(o) == o[1]

---------------------------------------------------------------------------
(* The VersionDiff enum *)

Versions == 1..MaxVersion
Sizes == 0..MaxSize
Urls == {"http://cdn/pkg"}
Dirs == {"/game", "/home"}
TempDirs == {"/tmp"}
Names == {"a", "b"}

Latest(v) == [tag |-> "Latest", version |-> v]
Outdated(c, l) == [tag |-> "Outdated", current |-> c, latest |-> l]
Diff(c, l, u, ds, us, p) ==
    [tag |-> "Diff", current |-> c, latest |-> l, url |-> u,
     download_size |-> ds, unpacked_size |-> us, unpacking_path |-> p]
NotInstalled(l, u, ds, us, p) ==
    [tag |-> "NotInstalled", latest |-> l, url |-> u,
     download_size |-> ds, unpacked_size |-> us, unpacking_path |-> p]

OptDirs == {None} \cup {Some(d) : d \in Dirs}

\* every VersionDiff value over the given field domains
VersionDiffs(vs, ss) ==
    {Latest(v) : v \in vs}
    \cup {Outdated(c, l) : c \in vs, l \in vs}
    \cup {Diff(c, l, u, s[1], s[2], p) :
            c \in vs, l \in vs, u \in Urls, s \in ss \X ss, p \in OptDirs}
    \cup {NotInstalled(l, u, s[1], s[2], p) :
            l \in vs, u \in Urls, s \in ss \X ss, p \in OptDirs}

CanBeDownloaded(d) == d.tag \in {"Diff", "NotInstalled"}

\* the two errors exchanged
RejectErrorSwapped(d) ==
    IF d.tag = "Latest" THEN "Outdated" ELSE "AlreadyLatest"

\* the match of download_to / install / install_to / install_to_by on the
\* two variants that cannot be downloaded
RejectError(d) ==
    IF d.tag = "Latest" THEN "AlreadyLatest" ELSE "Outdated"

\* the pair in the other order
get_size_swapped(d) ==
    CASE d.tag = "Latest" -> None
      [] d.tag = "Outdated" -> None
      [] d.tag \in {"Diff", "NotInstalled"} ->
            Some(<<d.unpacked_size, d.download_size>>)

get_size(d) ==
    CASE d.tag = "Latest" -> None
      [] d.tag = "Outdated" -> None
      [] d.tag \in {"Diff", "NotInstalled"} ->
            Some(<<d.download_size, d.unpacked_size>>)

\* NotInstalled taken for a variant without a path
unpacking_path_diff_only(d) ==
    CASE d.tag = "Latest" -> None
      [] d.tag = "Outdated" -> None
      [] d.tag = "Diff" -> d.unpacking_path
      [] d.tag = "NotInstalled" -> None

unpacking_path(d) ==
    CASE d.tag = "Latest" -> None
      [] d.tag = "Outdated" -> None
      [] d.tag = "Diff" -> d.unpacking_path
      [] d.tag = "NotInstalled" -> d.unpacking_path

---------------------------------------------------------------------------
(* The file system (std::fs) *)

Exists(f, p) == p \in DOMAIN f
Write(f, p, c) == [q \in DOMAIN f \cup {p} |-> IF q = p THEN c ELSE f[q]]
Remove(f, p) == [q \in DOMAIN f \ {p} |-> f[q]]
\* a rename that copies: the source stays
RenameKeepsSource(f, from, to) ==
    [q \in DOMAIN f \cup {to} |-> IF q = to THEN f[from] ELSE f[q]]
Rename(f, from, to) ==
    [q \in (DOMAIN f \ {from}) \cup {to} |-> IF q = to THEN f[from] ELSE f[q]]

\* format!("{}/{}", dir, rel)
Join(dir, rel) == dir \o "/" \o rel

IsAbsolute(p) == Len(p) > 0 /\ SubSeq(p, 1, 1) = "/"

\* the file a path handed to std::fs names: a relative path is resolved
\* against the current working directory of the process
Resolve(wd, p) == IF IsAbsolute(p) THEN p ELSE Join(wd, p)

---------------------------------------------------------------------------
(* The control files and the paths derived from their lines *)

HdiffList(path) == Join(path, "hdifffiles.txt")
DeleteList(path) == Join(path, "deletefiles.txt")

\* one line of hdifffiles.txt, as the package writes it
HdiffLine(name) == "{\"remoteName\": \"" \o name \o "\"}"

\* A string is a sequence of characters; str::len() and the offsets of a slice
\* count UTF-8 bytes.  Wide is a character of two bytes (such as U+00E9),
\* every other character of the model's strings has one.
Wide == "%"
WidePos(s) == {k \in 1..Len(s) : SubSeq(s, k, k) = Wide}
\* the number of bytes of the first k characters, W being WidePos of the string
BytesOf(W, k) == k + Cardinality({w \in W : w <= k})
ByteLen(s) == BytesOf(WidePos(s), Len(s))
\* str::is_char_boundary(b)
IsCharBoundary(s, b) ==
    LET W == WidePos(s)
    IN  IF W = {} THEN b \in 0..Len(s)
        ELSE \E k \in 0..Len(s) : BytesOf(W, k) = b
\* the number of characters in the first b bytes of s
CharsIn(s, b) ==
    LET W == WidePos(s)
    IN  IF W = {} THEN b
        ELSE CHOOSE k \in 0..Len(s) : BytesOf(W, k) = b

\* the offsets of &file[16..file.len() - 2]
PrefixLen == 16
SuffixLen == 2

\* &file[16..file.len() - 2] panics unless file.len() - 2 does not underflow
\* (the wrapped value of a release build lies beyond the end), 16 is at most
\* file.len() - 2, and both offsets are character boundaries
SliceInBounds(line) ==
    /\ ByteLen(line) >= SuffixLen
    /\ PrefixLen <= ByteLen(line) - SuffixLen
    /\ IsCharBoundary(line, PrefixLen)
    /\ IsCharBoundary(line, ByteLen(line) - SuffixLen)

\* the slice ending one byte late, on the closing quote
PatchFileKeepsQuote(path, line) ==
    Join(path, SubSeq(line, CharsIn(line, PrefixLen) + 1,
                      CharsIn(line, ByteLen(line) - SuffixLen) + 1))

\* format!("{}/{}", path, &file[16..file.len() - 2])
PatchFile(path, line) ==
    Join(path, SubSeq(line, CharsIn(line, PrefixLen) + 1,
                      CharsIn(line, ByteLen(line) - SuffixLen)))
\* format!("{}.hdiff", &file)
PatchPatch(file) == file \o ".hdiff"
\* format!("{}.hdiff_patched", &file)
PatchOutput(file) == file \o ".hdiff_patched"

\* the path remove_file is given for a line of deletefiles.txt
DeleteTarget(path, line) == line

---------------------------------------------------------------------------
(* File contents *)

OldContent == <<"v1">>
PatchContent == <<"hdiff">>
ArchiveBytes == <<"archive">>
\* what hpatchz writes for an original file and its patch
Patched(orig) == IF orig = OldContent THEN <<"v2">> ELSE <<"corrupt">>

---------------------------------------------------------------------------
(* The collaborators: Downloader, Installer, hpatchz *)

\* Downloader::new(url) and Installer::new(url): Ok or Err(curl::Error)
NewOutcomes == {"ok", "curl_error"}

\* Downloader::download_to(path, progress): Ok or Err(curl::Error)
DownloadOutcomes == {"ok", "curl_error"}

\* what a remote archive holds for this layer: the two control files, each
\* absent (None) or a list of lines; every line of the hdiff list comes with
\* its <file>.hdiff
LineSeqs(S) == UNION {[1..n -> S] : n \in 0..MaxEntries}
Archives ==
    [hdiff : {None} \cup {Some(l) : l \in LineSeqs({HdiffLine(n) : n \in Names})},
     del   : {None} \cup {Some(l) : l \in LineSeqs(Names)}]

RECURSIVE WriteAll(_, _, _)
WriteAll(f, ps, c) ==
    IF ps = {} THEN f
    ELSE LET p == CHOOSE q \in ps : TRUE
         IN  WriteAll(Write(f, p, c), ps \ {p}, c)

\* Installer::install(path, updater) having downloaded and unpacked archive a
Unpack(f, path, a) ==
    LET f1 == IF IsSome(a.hdiff)
              THEN Write(WriteAll(f,
                           {PatchPatch(PatchFile(path, Unwrap(a.hdiff)[i])) :
                              i \in {j \in 1..Len(Unwrap(a.hdiff)) :
                                       SliceInBounds(Unwrap(a.hdiff)[j])}},
                           PatchContent),
                         HdiffList(path), Unwrap(a.hdiff))
              ELSE f
    IN  IF IsSome(a.del) THEN Write(f1, DeleteList(path), Unwrap(a.del)) ELSE f1

\* Installer::install returns nothing: it either completed (TRUE) or reported
\* a download/unpack error through the updater (FALSE)
InstallOutcomes == {TRUE, FALSE}

\* hpatchz::patch(file, patch, output): the results it can give
PatchOutcomes(f, file, patch) ==
    IF Exists(f, file) /\ Exists(f, patch) THEN {TRUE, FALSE} ELSE {FALSE}

---------------------------------------------------------------------------
(* Results and events *)

Ok == [tag |-> "Ok", val |-> ""]
Err(e) == [tag |-> "Err", val |-> e]
Value(v) == [tag |-> "Value", val |-> v]
Panicked == [tag |-> "Panic", val |-> ""]
NoRet == [tag |-> "None", val |-> ""]

Event(e, p, i, ok) == [ev |-> e, path |-> p, idx |-> i, ok |-> ok]

NoCall == [op |-> "none", path |-> None, temp |-> None]
NoPrev == [call |-> NoCall, ret |-> NoRet, files |-> <<>>, idx |-> 0]

---------------------------------------------------------------------------
(* Initial states *)

\* the trees a process can start on: an installed game under /game and
\* unrelated files of the same relative names under /home
InitialTrees ==
    {WriteAll(WriteAll(<<>>, {Join("/game", n) : n \in g}, OldContent),
              {Join("/home", n) : n \in h}, OldContent) :
        g \in SUBSET Names, h \in SUBSET {"a"}}

\* the resolutions the transaction is run on: every value of the variants
\* that cannot be downloaded, and the downloadable ones with every
\* unpacking_path (versions and sizes play no part in the transaction)
TransactionDiffs ==
    {d \in VersionDiffs(Versions, Sizes) : ~CanBeDownloaded(d)}
    \cup {d \in VersionDiffs({MaxVersion}, {MaxSize}) : CanBeDownloaded(d)}

\* the state before the first call, for given inputs
Start(ds, as, ts, n) ==
    /\ diff \in ds
    /\ cwd \in {"/home"}
    /\ archive \in as
    /\ fs \in ts
    /\ callsLeft = n
    /\ pc = "idle"
    /\ call = NoCall
    /\ params = None
    /\ ret = NoRet
    /\ files = <<>>
    /\ idx = 0
    /\ snap = fs
    /\ snapInst = fs
    /\ instOk = FALSE
    /\ invoked = {}
    /\ log = <<>>
    /\ prev = NoPrev

\* one call, on any resolution, archive and tree
Init == Start(TransactionDiffs, Archives, InitialTrees, 1) /\ parked = None

---------------------------------------------------------------------------
(* Calling and returning *)

\* a method is entered: the bookkeeping of the call starts afresh
Begin(op, path, temp) ==
    /\ pc = "idle"
    /\ callsLeft > 0
    /\ callsLeft' = callsLeft - 1
    /\ call' = [op |-> op, path |-> path, temp |-> temp]
    /\ prev' = [call |-> call, ret |-> ret, files |-> files, idx |-> idx]
    /\ snap' = fs
    /\ snapInst' = fs
    /\ instOk' = FALSE
    /\ files' = <<>>
    /\ idx' = 0

Return(r) == ret' = r /\ pc' = "idle"

\* expect() on an Err, or a slice out of bounds: the thread panics
Panic == ret' = Panicked /\ pc' = "panicked"

\* the body of install_to_by is entered with path and temp_path
EnterInstallToBy(path, temp) ==
    /\ params' = Some([path |-> path, temp |-> temp])
    /\ pc' = "installer_new"
    /\ ret' = NoRet
    /\ invoked' = {}
    /\ log' = <<>>
    /\ UNCHANGED fs

Reject(e) ==
    /\ Return(Err(e))
    /\ params' = None
    /\ invoked' = {}
    /\ log' = <<>>
    /\ UNCHANGED fs

---------------------------------------------------------------------------
(* The queries *)

Call_get_size ==
    /\ Begin("get_size", None, None)
    /\ Return(Value(get_size(diff)))
    /\ params' = None
    /\ invoked' = {}
    /\ log' = <<>>
    /\ UNCHANGED <<diff, cwd, archive, fs, parked>>

Call_unpacking_path ==
    /\ Begin("unpacking_path", None, None)
    /\ Return(Value(unpacking_path(diff)))
    /\ params' = None
    /\ invoked' = {}
    /\ log' = <<>>
    /\ UNCHANGED <<diff, cwd, archive, fs, parked>>

---------------------------------------------------------------------------
(* download_to *)

DownloadTargets == {"/tmp/pkg.zip"}

\* download_to using its &mut self to record the downloaded version
Call_download_to_marking ==
    \E path \in DownloadTargets :
        /\ Begin("download_to", Some(path), None)
        /\ IF ~CanBeDownloaded(diff)
           THEN Reject(RejectError(diff)) /\ diff' = diff
           ELSE \E n \in NewOutcomes, d \in DownloadOutcomes :
                  /\ params' = None
                  /\ invoked' = {"Downloader"}
                  /\ log' = <<>>
                  /\ IF n = "ok" /\ d = "ok"
                     THEN /\ fs' = Write(fs, Resolve(cwd, path), ArchiveBytes)
                          /\ diff' = Latest(diff.latest)
                          /\ Return(Ok)
                     ELSE /\ fs' = fs
                          /\ diff' = diff
                          /\ Return(Err("Curl"))
        /\ UNCHANGED <<cwd, archive, parked>>

Call_download_to ==
    \E path \in DownloadTargets :
        /\ Begin("download_to", Some(path), None)
        /\ IF ~CanBeDownloaded(diff)
           THEN Reject(RejectError(diff))
           ELSE \E n \in NewOutcomes, d \in DownloadOutcomes :
                  /\ params' = None
                  /\ invoked' = {"Downloader"}
                  /\ log' = <<>>
                  /\ IF n = "ok" /\ d = "ok"
                     THEN /\ fs' = Write(fs, Resolve(cwd, path), ArchiveBytes)
                          /\ Return(Ok)
                     ELSE /\ fs' = fs
                          /\ Return(Err("Curl"))
        /\ UNCHANGED <<diff, cwd, archive, parked>>

---------------------------------------------------------------------------
(* install, install_to, install_to_by: the entry *)

\* install falling back to the working directory when no path is embedded
Call_install_guessing ==
    /\ Begin("install", None, None)
    /\ IF ~CanBeDownloaded(diff)
       THEN Reject(RejectError(diff))
       ELSE EnterInstallToBy(IF IsSome(diff.unpacking_path)
                             THEN Unwrap(diff.unpacking_path) ELSE cwd, None)
    /\ UNCHANGED <<diff, cwd, archive, parked>>

Call_install ==
    /\ Begin("install", None, None)
    /\ IF ~CanBeDownloaded(diff)
       THEN Reject(RejectError(diff))
       ELSE IF IsSome(diff.unpacking_path)
            THEN EnterInstallToBy(Unwrap(diff.unpacking_path), None)
            ELSE Reject("PathNotSpecified")
    /\ UNCHANGED <<diff, cwd, archive, parked>>

\* install_to preferring the embedded path to its argument
Call_install_to_embedded ==
    \E path \in Dirs :
        /\ Begin("install_to", Some(path), None)
        /\ IF ~CanBeDownloaded(diff)
           THEN Reject(RejectError(diff))
           ELSE EnterInstallToBy(IF IsSome(diff.unpacking_path)
                                 THEN Unwrap(diff.unpacking_path) ELSE path,
                                 None)
        /\ UNCHANGED <<diff, cwd, archive, parked>>

Call_install_to ==
    \E path \in Dirs :
        /\ Begin("install_to", Some(path), None)
        /\ IF ~CanBeDownloaded(diff)
           THEN Reject(RejectError(diff))
           ELSE EnterInstallToBy(path, None)
        /\ UNCHANGED <<diff, cwd, archive, parked>>

Call_install_to_by ==
    \E path \in Dirs, temp \in {None} \cup {Some(t) : t \in TempDirs} :
        /\ Begin("install_to_by", Some(path), temp)
        /\ IF ~CanBeDownloaded(diff)
           THEN Reject(RejectError(diff))
           ELSE EnterInstallToBy(path, temp)
        /\ UNCHANGED <<diff, cwd, archive, parked>>

---------------------------------------------------------------------------
(* install_to_by: the body *)

Dest == Unwrap(params).path

\* the method's inputs and what no step of the body changes
Frame ==
    UNCHANGED <<diff, cwd, archive, call, params, prev, callsLeft, snap, parked>>

\* match Installer::new(url)
InstallerNew ==
    /\ pc = "installer_new"
    /\ \E n \in NewOutcomes :
         /\ log' = Append(log, Event("new", Dest, 0, n = "ok"))
         /\ IF n = "ok"
            THEN pc' = "installer_install" /\ ret' = ret
            ELSE Return(Err("Curl"))
    /\ invoked' = invoked \cup {"Installer"}
    /\ UNCHANGED <<fs, files, idx, snapInst, instOk>>
    /\ Frame

\* installer.install(path.to_string(), updater), after set_temp_folder
InstallerInstall ==
    /\ pc = "installer_install"
    /\ \E done \in InstallOutcomes :
         /\ instOk' = done
         /\ fs' = IF done THEN Unpack(fs, Resolve(cwd, Dest), archive) ELSE fs
         /\ snapInst' = fs'
    /\ log' = Append(log, Event("install", Dest, 0, instOk'))
    /\ pc' = "read_hdiff"
    /\ UNCHANGED <<ret, files, idx, invoked>>
    /\ Frame

\* the list deleted as soon as it has been read into memory
ReadHdiffListConsumes ==
    /\ pc = "read_hdiff"
    /\ LET list == Resolve(cwd, HdiffList(Dest)) IN
         IF Exists(fs, list)
         THEN /\ files' = fs[list]
              /\ idx' = 1
              /\ pc' = IF Len(fs[list]) = 0 THEN "remove_hdifflist" ELSE "patch"
              /\ fs' = Remove(fs, list)
         ELSE /\ files' = <<>>
              /\ idx' = 0
              /\ pc' = "read_delete"
              /\ fs' = fs
    /\ UNCHANGED <<ret, snapInst, instOk, invoked, log>>
    /\ Frame

\* if let Ok(files) = read_to_string(".../hdifffiles.txt")
ReadHdiffList ==
    /\ pc = "read_hdiff"
    /\ LET list == Resolve(cwd, HdiffList(Dest)) IN
         IF Exists(fs, list)
         THEN /\ files' = fs[list]
              /\ idx' = 1
              /\ pc' = IF Len(fs[list]) = 0 THEN "remove_hdifflist" ELSE "patch"
         ELSE /\ files' = <<>>
              /\ idx' = 0
              /\ pc' = "read_delete"
    /\ UNCHANGED <<fs, ret, snapInst, instOk, invoked, log>>
    /\ Frame

\* the three paths of the entry in hand
CurFile == PatchFile(Dest, files[idx])
CurPatch == PatchPatch(CurFile)
CurOutput == PatchOutput(CurFile)

\* a failed patch, returned to the caller in place of Err(HdiffPatch)
OnPatchErrorSwallowed == Return(Ok)

\* a failed patch that only leaves the loop
OnPatchErrorBreaks == pc' = "read_delete" /\ ret' = ret

\* if let Err(err) = hpatchz::patch(..) { return Err(HdiffPatch(..)) }
OnPatchError == Return(Err("HdiffPatch"))

\* hpatchz::patch(&file, &patch, &output)
PatchEntry ==
    /\ pc = "patch"
    /\ IF ~SliceInBounds(files[idx])
       THEN /\ Panic
            /\ UNCHANGED <<fs, invoked, log>>
       ELSE /\ invoked' = invoked \cup {"hpatchz"}
            /\ \E ok \in PatchOutcomes(fs, Resolve(cwd, CurFile), Resolve(cwd, CurPatch)) :
                 /\ log' = Append(log, Event("patch", CurFile, idx, ok))
                 /\ IF ok
                    THEN /\ fs' = Write(fs, Resolve(cwd, CurOutput),
                                        Patched(fs[Resolve(cwd, CurFile)]))
                         /\ pc' = "remove_file"
                         /\ ret' = ret
                    ELSE /\ fs' = fs
                         /\ OnPatchError
    /\ UNCHANGED <<files, idx, snapInst, instOk>>
    /\ Frame

\* remove_file(p).expect(..): one step of the body that deletes p and goes
\* to next, or panics when p cannot be deleted
RemoveStep(here, p, i, next) ==
    /\ pc = here
    /\ IF Exists(fs, Resolve(cwd, p))
       THEN /\ fs' = Remove(fs, Resolve(cwd, p))
            /\ log' = Append(log, Event("remove", p, i, TRUE))
            /\ pc' = next
            /\ ret' = ret
       ELSE /\ fs' = fs
            /\ log' = Append(log, Event("remove", p, i, FALSE))
            /\ Panic

\* the patch file deleted where the original should be
RemoveOriginalSwapped ==
    /\ RemoveStep("remove_file", CurPatch, idx, "remove_patch")
    /\ UNCHANGED <<files, idx, snapInst, instOk, invoked>>
    /\ Frame

\* remove_file(&file).expect(..)
RemoveOriginal ==
    /\ RemoveStep("remove_file", CurFile, idx, "remove_patch")
    /\ UNCHANGED <<files, idx, snapInst, instOk, invoked>>
    /\ Frame

\* the produced output deleted in place of the patch file
RemovePatchOutput ==
    /\ RemoveStep("remove_patch", CurOutput, idx, "rename")
    /\ UNCHANGED <<files, idx, snapInst, instOk, invoked>>
    /\ Frame

\* remove_file(&patch).expect(..)
RemovePatch ==
    /\ RemoveStep("remove_patch", CurPatch, idx, "rename")
    /\ UNCHANGED <<files, idx, snapInst, instOk, invoked>>
    /\ Frame

\* the list removed after the first entry, inside the loop
RenameOutputEndsPass ==
    /\ pc = "rename"
    /\ IF Exists(fs, Resolve(cwd, CurOutput))
       THEN /\ fs' = Rename(fs, Resolve(cwd, CurOutput), Resolve(cwd, CurFile))
            /\ log' = Append(log, Event("rename", CurFile, idx, TRUE))
            /\ idx' = idx + 1
            /\ pc' = "remove_hdifflist"
            /\ ret' = ret
       ELSE /\ fs' = fs
            /\ log' = Append(log, Event("rename", CurFile, idx, FALSE))
            /\ idx' = idx
            /\ Panic
    /\ UNCHANGED <<files, snapInst, instOk, invoked>>
    /\ Frame

\* std::fs::rename(&output, &file).expect(..), then the next entry
RenameOutput ==
    /\ pc = "rename"
    /\ IF Exists(fs, Resolve(cwd, CurOutput))
       THEN /\ fs' = Rename(fs, Resolve(cwd, CurOutput), Resolve(cwd, CurFile))
            /\ log' = Append(log, Event("rename", CurFile, idx, TRUE))
            /\ idx' = idx + 1
            /\ pc' = IF idx < Len(files) THEN "patch" ELSE "remove_hdifflist"
            /\ ret' = ret
       ELSE /\ fs' = fs
            /\ log' = Append(log, Event("rename", CurFile, idx, FALSE))
            /\ idx' = idx
            /\ Panic
    /\ UNCHANGED <<files, snapInst, instOk, invoked>>
    /\ Frame

\* remove_file(".../hdifffiles.txt").expect(..)
RemoveHdiffList ==
    /\ RemoveStep("remove_hdifflist", HdiffList(Dest), 0, "read_delete")
    /\ UNCHANGED <<files, idx, snapInst, instOk, invoked>>
    /\ Frame

\* a missing deletefiles.txt taken for a failed transaction
ReadDeleteListStrict ==
    /\ pc = "read_delete"
    /\ LET list == Resolve(cwd, DeleteList(Dest)) IN
         IF Exists(fs, list)
         THEN /\ files' = fs[list]
              /\ idx' = 1
              /\ pc' = IF Len(fs[list]) = 0 THEN "remove_deletelist" ELSE "delete"
              /\ ret' = ret
         ELSE /\ files' = files
              /\ idx' = idx
              /\ Return(Err("Curl"))
    /\ UNCHANGED <<fs, snapInst, instOk, invoked, log>>
    /\ Frame

\* if let Ok(files) = read_to_string(".../deletefiles.txt"), else Ok(())
ReadDeleteList ==
    /\ pc = "read_delete"
    /\ LET list == Resolve(cwd, DeleteList(Dest)) IN
         IF Exists(fs, list)
         THEN /\ files' = fs[list]
              /\ idx' = 1
              /\ pc' = IF Len(fs[list]) = 0 THEN "remove_deletelist" ELSE "delete"
              /\ ret' = ret
         ELSE /\ files' = files
              /\ idx' = idx
              /\ Return(Ok)
    /\ UNCHANGED <<fs, snapInst, instOk, invoked, log>>
    /\ Frame

\* a failed delete that is skipped instead of being fatal
DeleteEntryLenient ==
    /\ pc = "delete"
    /\ LET p == DeleteTarget(Dest, files[idx])
           ok == Exists(fs, Resolve(cwd, p)) IN
         /\ fs' = IF ok THEN Remove(fs, Resolve(cwd, p)) ELSE fs
         /\ log' = Append(log, Event("remove", p, idx, ok))
    /\ pc' = IF idx < Len(files) THEN "delete" ELSE "remove_deletelist"
    /\ ret' = ret
    /\ idx' = idx + 1
    /\ UNCHANGED <<files, snapInst, instOk, invoked>>
    /\ Frame

\* remove_file(&file).expect(..) for one line of deletefiles.txt
DeleteEntry ==
    /\ RemoveStep("delete", DeleteTarget(Dest, files[idx]), idx,
                  IF idx < Len(files) THEN "delete" ELSE "remove_deletelist")
    /\ idx' = IF pc' = "panicked" THEN idx ELSE idx + 1
    /\ UNCHANGED <<files, snapInst, instOk, invoked>>
    /\ Frame

\* remove_file(".../deletefiles.txt").expect(..), then Ok(())
RemoveDeleteList ==
    /\ pc = "remove_deletelist"
    /\ IF Exists(fs, Resolve(cwd, DeleteList(Dest)))
       THEN /\ fs' = Remove(fs, Resolve(cwd, DeleteList(Dest)))
            /\ log' = Append(log, Event("remove", DeleteList(Dest), 0, TRUE))
            /\ Return(Ok)
       ELSE /\ fs' = fs
            /\ log' = Append(log, Event("remove", DeleteList(Dest), 0, FALSE))
            /\ Panic
    /\ UNCHANGED <<files, idx, snapInst, instOk, invoked>>
    /\ Frame

---------------------------------------------------------------------------
(* The specification *)

Next ==
    \/ Call_get_size
    \/ Call_unpacking_path
    \/ Call_download_to
    \/ Call_install
    \/ Call_install_to
    \/ Call_install_to_by
    \/ InstallerNew
    \/ InstallerInstall
    \/ ReadHdiffList
    \/ PatchEntry
    \/ RemoveOriginal
    \/ RemovePatch
    \/ RenameOutput
    \/ RemoveHdiffList
    \/ ReadDeleteList
    \/ DeleteEntry
    \/ RemoveDeleteList

Spec == Init /\ [][Next]_vars

\* install run again and again on one destination
RetryDiffs == {d \in TransactionDiffs : d.tag = "Diff" /\ IsSome(d.unpacking_path)}
InitRetry == Start(RetryDiffs, Archives, InitialTrees, MaxCalls) /\ parked = None
NextRetry ==
    \/ Call_install
    \/ InstallerNew
    \/ InstallerInstall
    \/ ReadHdiffList
    \/ PatchEntry
    \/ RemoveOriginal
    \/ RemovePatch
    \/ RenameOutput
    \/ RemoveHdiffList
    \/ ReadDeleteList
    \/ DeleteEntry
    \/ RemoveDeleteList
SpecRetry == InitRetry /\ [][NextRetry]_vars

\* one transaction on one resolution, entered through install_to, on any
\* destination, archive and tree
BodyDiffs == {d \in RetryDiffs : d.unpacking_path = Some("/game")}
InitBody == Start(BodyDiffs, Archives, InitialTrees, 1) /\ parked = None
NextBody ==
    \/ Call_install_to
    \/ InstallerNew
    \/ InstallerInstall
    \/ ReadHdiffList
    \/ PatchEntry
    \/ RemoveOriginal
    \/ RemovePatch
    \/ RenameOutput
    \/ RemoveHdiffList
    \/ ReadDeleteList
    \/ DeleteEntry
    \/ RemoveDeleteList
SpecBody == InitBody /\ [][NextBody]_vars

\* the queries, on every resolution
InitQuery ==
    /\ Start(VersionDiffs(Versions, Sizes), {[hdiff |-> None, del |-> None]},
             {<<>>}, MaxCalls)
    /\ parked = None
NextQuery == Call_get_size \/ Call_unpacking_path
SpecQuery == InitQuery /\ [][NextQuery]_vars

---------------------------------------------------------------------------
(* Vocabulary of the properties *)

InstallCall == call.op \in {"install", "install_to", "install_to_by"}
Returned == pc = "idle" /\ call.op # "none"
At(p) == Resolve(cwd, p)

\* the call ran Installer::install
InstallerRan == \E j \in 1..Len(log) : log[j].ev = "install"
\* the transaction is past its Installer step
InTransaction == InstallCall /\ IsSome(params) /\ InstallerRan

\* the control files as the Installer step left them
HdiffAfterInstall == snapInst[At(HdiffList(Dest))]
DeleteAfterInstall == snapInst[At(DeleteList(Dest))]
HasHdiffList == Exists(snapInst, At(HdiffList(Dest)))
HasDeleteList == Exists(snapInst, At(DeleteList(Dest)))
EntryFile(i) == At(PatchFile(Dest, HdiffAfterInstall[i]))
Entries == 1..Len(HdiffAfterInstall)

\* hdifffiles.txt lists N distinct entries, each with <file> and <file>.hdiff
HdiffSetup ==
    /\ InTransaction
    /\ HasHdiffList
    /\ \A i \in Entries :
         /\ SliceInBounds(HdiffAfterInstall[i])
         /\ Exists(snapInst, EntryFile(i))
         /\ Exists(snapInst, PatchPatch(EntryFile(i)))
    /\ \A i, j \in Entries : EntryFile(i) = EntryFile(j) => i = j

PatchEvents == {j \in 1..Len(log) : log[j].ev = "patch"}
EngineNeverFailed == \A j \in PatchEvents : log[j].ok
EngineFailedAt(k) == \E j \in PatchEvents : ~log[j].ok /\ log[j].idx = k

\* the cleanup pass is handed none of the files the hdiff list names
CleanupSparesEntries ==
    HasDeleteList =>
        \A l \in 1..Len(DeleteAfterInstall), i \in Entries :
            At(DeleteTarget(Dest, DeleteAfterInstall[l])) # EntryFile(i)

FullyPatched(i) ==
    /\ Exists(fs, EntryFile(i))
    /\ fs[EntryFile(i)] = Patched(snapInst[EntryFile(i)])
    /\ ~Exists(fs, PatchPatch(EntryFile(i)))
    /\ ~Exists(fs, PatchOutput(EntryFile(i)))

Untouched(i) ==
    /\ Exists(fs, EntryFile(i))
    /\ fs[EntryFile(i)] = snapInst[EntryFile(i)]
    /\ Exists(fs, PatchPatch(EntryFile(i)))

---------------------------------------------------------------------------
(* C1 *)

\* C1: with hdifffiles.txt listing N entries, each with <file> and
\* <file>.hdiff present after the Installer step, and a patch engine that
\* never fails, a returned install_to_by returned Ok, every <file> holds the
\* patched content, no <file>.hdiff or <file>.hdiff_patched remains and
\* hdifffiles.txt is gone.  (Setup of the scenario: the N entries are N
\* different files and deletefiles.txt names none of them.)
C1_AllEntriesPatched ==
    (Returned /\ EngineNeverFailed /\ HdiffSetup /\ CleanupSparesEntries) =>
        /\ ret = Ok
        /\ \A i \in Entries : FullyPatched(i)
        /\ ~Exists(fs, At(HdiffList(Dest)))

C1_Witness ==
    /\ HdiffSetup /\ CleanupSparesEntries /\ Returned /\ EngineNeverFailed
    /\ Len(HdiffAfterInstall) = MaxEntries
    /\ HasDeleteList /\ Len(DeleteAfterInstall) > 0
    /\ ret = Ok

---------------------------------------------------------------------------
(* C2 *)

\* C2: same setup, the patch engine fails on entry k: install_to_by returns
\* Err(HdiffPatch), entries 1..k-1 are fully patched and entry k and every
\* later entry are untouched (content unchanged, .hdiff still present).
C2_FailureAtEntryK ==
    \A k \in 1..MaxEntries :
        (Returned /\ EngineFailedAt(k) /\ HdiffSetup) =>
            /\ ret = Err("HdiffPatch")
            /\ k \in Entries
            /\ \A i \in Entries : i < k => FullyPatched(i)
            /\ \A i \in Entries : i >= k => Untouched(i)

C2_Witness ==
    /\ HdiffSetup /\ Returned /\ EngineFailedAt(2)
    /\ Len(HdiffAfterInstall) >= 2

---------------------------------------------------------------------------
(* C3 *)

\* every line of deletefiles.txt names a file that exists in the destination
DeleteSetup ==
    /\ InTransaction
    /\ HasDeleteList
    /\ \A l \in 1..Len(DeleteAfterInstall) :
         Exists(snapInst, At(Join(Dest, DeleteAfterInstall[l])))

\* C3: with deletefiles.txt listing M files that exist inside the
\* destination, after install_to_by returned Ok none of those files of the
\* destination exists and deletefiles.txt is gone, whatever the destination
\* is (also when it is not the working directory).
C3_ListedFilesDeleted ==
    (DeleteSetup /\ Returned /\ ret = Ok) =>
        /\ \A l \in 1..Len(DeleteAfterInstall) :
             ~Exists(fs, At(Join(Dest, DeleteAfterInstall[l])))
        /\ ~Exists(fs, At(DeleteList(Dest)))

---------------------------------------------------------------------------
(* C4 *)

Downloading == call.op = "download_to"
NothingDone == invoked = {} /\ log = <<>> /\ fs = snap

\* C4: on every Latest value download_to, install, install_to and
\* install_to_by return Err(AlreadyLatest), on every Outdated value
\* Err(Outdated), at once: no collaborator is invoked, no file changes and
\* the body of the method is never entered.
C4_UndownloadableRejected ==
    ((InstallCall \/ Downloading) /\ diff.tag \in {"Latest", "Outdated"}) =>
        /\ pc = "idle"
        /\ diff.tag = "Latest" => ret = Err("AlreadyLatest")
        /\ diff.tag = "Outdated" => ret = Err("Outdated")
        /\ NothingDone

C4_Witness ==
    /\ Returned
    /\ call.op = "install_to_by" /\ IsSome(call.temp)
    /\ diff.tag = "Outdated" /\ diff.current # diff.latest
    /\ ret = Err("Outdated")

---------------------------------------------------------------------------
(* C5 *)

\* C5: install on a Diff or NotInstalled value whose unpacking_path is None
\* returns Err(PathNotSpecified); the Installer and the patch engine are not
\* invoked and no file is read, deleted or renamed (the body of
\* install_to_by is never entered).
C5_PathNotSpecified ==
    (call.op = "install" /\ CanBeDownloaded(diff)
       /\ diff.unpacking_path = None) =>
        /\ pc = "idle"
        /\ ret = Err("PathNotSpecified")
        /\ NothingDone

C5_Witness ==
    /\ Returned
    /\ call.op = "install"
    /\ diff.tag = "NotInstalled" /\ diff.unpacking_path = None
    /\ ret = Err("PathNotSpecified")

---------------------------------------------------------------------------
(* C6 *)

ChangeEvents == {j \in 1..Len(log) : log[j].ev \in {"patch", "remove", "rename"}}
NoControlFiles == InTransaction /\ ~HasHdiffList /\ ~HasDeleteList

\* C6: when the destination holds neither control file after the Installer
\* step, install_to_by returns Ok and changes nothing after that step: no
\* patch engine call, no delete, no rename.  This includes a run on a
\* destination an earlier transaction has fully processed.
C6_NoControlFilesNoOp ==
    NoControlFiles =>
        /\ ChangeEvents = {}
        /\ "hpatchz" \notin invoked
        /\ fs = snapInst
        /\ pc \in {"read_hdiff", "read_delete", "idle"}
        /\ Returned => ret = Ok

\* a second run on a destination the run before it fully processed
C6_Witness ==
    /\ NoControlFiles /\ Returned /\ ret = Ok
    /\ prev.call = call
    /\ prev.ret = Ok
    /\ Len(prev.files) > 0

---------------------------------------------------------------------------
(* C7 *)

\* the call repeats the one before it, which was aborted by a failed patch,
\* and the hdiff list is the one that call read (N different files)
RetryAfterAbort ==
    /\ InTransaction
    /\ prev.call = call
    /\ prev.ret = Err("HdiffPatch")
    /\ HasHdiffList
    /\ HdiffAfterInstall = prev.files
    /\ \A i, j \in Entries : HdiffAfterInstall[i] = HdiffAfterInstall[j] => i = j

\* entry i was patched by the aborted run and has no .hdiff sibling left
AlreadyPatched(i) ==
    /\ i < prev.idx
    /\ SliceInBounds(HdiffAfterInstall[i])
    /\ ~Exists(snapInst, PatchPatch(EntryFile(i)))

\* C7: a retry after an abort at entry k skips entries 1..k-1: the patch
\* engine is not called for them again and they do not end the retry, which
\* goes on to the remaining entries.
C7_RetrySkipsPatched ==
    RetryAfterAbort =>
        /\ \A j \in PatchEvents : ~AlreadyPatched(log[j].idx)
        /\ (Returned /\ ret = Err("HdiffPatch")) =>
              \E j \in PatchEvents : log[j].idx >= prev.idx

---------------------------------------------------------------------------
(* C8 *)

\* Installer::new returned Err, or install reported a download/unpack error
InstallerStepFailed ==
    /\ InstallCall
    /\ \E j \in 1..Len(log) :
         /\ log[j].ev \in {"new", "install"}
         /\ ~log[j].ok

\* C8: a failure of the Installer step, in Installer::new or in its install
\* call, makes the transaction return a transport error and stop: neither
\* the patch pass nor the cleanup pass runs.
C8_InstallerFailureStops ==
    InstallerStepFailed =>
        /\ ChangeEvents = {}
        /\ Returned => ret = Err("Curl")

---------------------------------------------------------------------------
(* C9 *)

\* C9: get_size returns None exactly on Latest and Outdated, and on a Diff
\* or NotInstalled value Some((download_size, unpacked_size)) of that value.
C9_GetSize ==
    (Returned /\ call.op = "get_size") =>
        /\ ret.tag = "Value"
        /\ ret.val = None <=> diff.tag \in {"Latest", "Outdated"}
        /\ diff.tag \in {"Diff", "NotInstalled"} =>
              ret.val = Some(<<diff.download_size, diff.unpacked_size>>)

C9_Witness ==
    /\ Returned /\ call.op = "get_size"
    /\ diff.tag = "NotInstalled"
    /\ diff.download_size < diff.unpacked_size
    /\ ret.val = Some(<<diff.download_size, diff.unpacked_size>>)

---------------------------------------------------------------------------
(* C10 *)

\* C10 as claimed: unpacking_path returns None exactly on Latest and
\* Outdated, and a value that is not None on every Diff and NotInstalled.
C10_NoneExactlyOnUndownloadable ==
    (Returned /\ call.op = "unpacking_path") =>
        (ret.val = None <=> diff.tag \in {"Latest", "Outdated"})

\* C10 as amended: unpacking_path returns None on Latest and Outdated, and
\* on a Diff or NotInstalled value the embedded unpacking_path field as it
\* is: Some(path), or None when the value carries no path.
C10_UnpackingPath ==
    (Returned /\ call.op = "unpacking_path") =>
        /\ ret.tag = "Value"
        /\ diff.tag \in {"Latest", "Outdated"} => ret.val = None
        /\ diff.tag \in {"Diff", "NotInstalled"} =>
              ret.val = diff.unpacking_path

C10_Witness ==
    /\ Returned /\ call.op = "unpacking_path"
    /\ diff.tag = "NotInstalled"
    /\ diff.unpacking_path = None
    /\ ret.val = None

---------------------------------------------------------------------------
(* install_to_by as a function: what the body returns and leaves on disk,  *)
(* given the tree it starts on and what its collaborators answer           *)

Outcome(r, f) == [ret |-> r, fs |-> f]

\* the loop over hdifffiles.txt from line i on, then the removal of the
\* list; failAt is the line hpatchz fails on (0: none); a ret of NoRet means
\* that the function goes on to the cleanup pass
RECURSIVE PatchPass(_, _, _, _, _, _)
PatchPass(f, wd, path, lines, i, failAt) ==
    IF i > Len(lines)
    THEN IF Exists(f, Resolve(wd, HdiffList(path)))
         THEN Outcome(NoRet, Remove(f, Resolve(wd, HdiffList(path))))
         ELSE Outcome(Panicked, f)
    ELSE IF ~SliceInBounds(lines[i]) THEN Outcome(Panicked, f)
    ELSE LET file == Resolve(wd, PatchFile(path, lines[i]))
             patch == Resolve(wd, PatchPatch(PatchFile(path, lines[i])))
             output == Resolve(wd, PatchOutput(PatchFile(path, lines[i])))
             f1 == Write(f, output,
                         IF Exists(f, file) THEN Patched(f[file]) ELSE <<>>)
             f2 == Remove(f1, file)
             f3 == Remove(f2, patch)
         IN  IF failAt = i THEN Outcome(Err("HdiffPatch"), f)
             ELSE IF ~Exists(f1, file) THEN Outcome(Panicked, f1)
             ELSE IF ~Exists(f2, patch) THEN Outcome(Panicked, f2)
             ELSE IF ~Exists(f3, output) THEN Outcome(Panicked, f3)
             ELSE PatchPass(Rename(f3, output, file), wd, path, lines,
                            i + 1, failAt)

\* the loop over deletefiles.txt from line i on, then the removal of the list
RECURSIVE DeletePass(_, _, _, _, _)
DeletePass(f, wd, path, lines, i) ==
    IF i > Len(lines)
    THEN IF Exists(f, Resolve(wd, DeleteList(path)))
         THEN Outcome(Ok, Remove(f, Resolve(wd, DeleteList(path))))
         ELSE Outcome(Panicked, f)
    ELSE LET target == Resolve(wd, DeleteTarget(path, lines[i]))
         IN  IF Exists(f, target)
             THEN DeletePass(Remove(f, target), wd, path, lines, i + 1)
             ELSE Outcome(Panicked, f)

InstallToBy(f, wd, a, path, newOk, done, failAt) ==
    IF ~newOk THEN Outcome(Err("Curl"), f)
    ELSE LET f1 == IF done THEN Unpack(f, Resolve(wd, path), a) ELSE f
             hl == Resolve(wd, HdiffList(path))
             p  == IF Exists(f1, hl)
                   THEN PatchPass(f1, wd, path, f1[hl], 1, failAt)
                   ELSE Outcome(NoRet, f1)
             dl == Resolve(wd, DeleteList(path))
         IN  IF p.ret # NoRet THEN p
             ELSE IF Exists(p.fs, dl)
                  THEN DeletePass(p.fs, wd, path, p.fs[dl], 1)
                  ELSE Outcome(Ok, p.fs)

---------------------------------------------------------------------------
(* C11 *)

\* what the collaborators answered in the call, read off its log
AnsweredNewOk == \E j \in 1..Len(log) : log[j].ev = "new" /\ log[j].ok
AnsweredInstallDone == \E j \in 1..Len(log) : log[j].ev = "install" /\ log[j].ok
AnsweredFailAt ==
    IF \E j \in PatchEvents : ~log[j].ok
    THEN log[CHOOSE j \in PatchEvents : ~log[j].ok].idx
    ELSE 0

Finished == pc \in {"idle", "panicked"}

\* C11: the three entry points run one algorithm.  install_to(p) enters
\* install_to_by with (p, None), whatever unpacking_path is embedded;
\* install() on a value with unpacking_path = Some(p) enters it with
\* (p, None); and the result and the final tree of every entry point are the
\* same function of the destination, the starting tree and the collaborators'
\* answers, so install_to(p), install_to_by(p, None) and install() with
\* Some(p) embedded agree in result and file-system effect.
C11_OneAlgorithm ==
    (InstallCall /\ IsSome(params)) =>
        /\ call.op = "install_to" =>
              params = Some([path |-> Unwrap(call.path), temp |-> None])
        /\ call.op = "install_to_by" =>
              params = Some([path |-> Unwrap(call.path), temp |-> call.temp])
        /\ call.op = "install" =>
              /\ CanBeDownloaded(diff)
              /\ IsSome(diff.unpacking_path)
              /\ params = Some([path |-> Unwrap(diff.unpacking_path),
                                temp |-> None])
        /\ Finished =>
              Outcome(ret, fs) =
                  InstallToBy(snap, cwd, archive, Dest, AnsweredNewOk,
                              AnsweredInstallDone, AnsweredFailAt)

\* install_to(p) on a value that embeds another path, run to Ok through
\* both passes
C11_Witness ==
    /\ Returned /\ call.op = "install_to" /\ ret = Ok
    /\ IsSome(diff.unpacking_path)
    /\ diff.unpacking_path # call.path
    /\ PatchEvents # {}
    /\ HasDeleteList /\ Len(DeleteAfterInstall) > 0

---------------------------------------------------------------------------
(* C12 *)

\* where in the log hdifffiles.txt is removed
HdiffListRemovals ==
    {j \in 1..Len(log) : /\ log[j].ev = "remove"
                         /\ log[j].idx = 0
                         /\ log[j].path = HdiffList(Dest)}

\* the events of the patch pass, in the order they happened: those after
\* Installer::new and Installer::install and before the removal of the list
PatchPassLog ==
    IF ~InTransaction \/ ~HasHdiffList THEN <<>>
    ELSE SubSeq(log, 3,
                IF HdiffListRemovals = {} THEN Len(log)
                ELSE (CHOOSE j \in HdiffListRemovals : TRUE) - 1)

\* the n-th event of a patch pass that handles the lines one at a time
ExpectedKind(n) ==
    CASE (n - 1) % 4 = 0 -> "patch"
      [] (n - 1) % 4 = 1 -> "remove"
      [] (n - 1) % 4 = 2 -> "remove"
      [] (n - 1) % 4 = 3 -> "rename"
ExpectedEntry(n) == ((n - 1) \div 4) + 1
ExpectedPath(n) ==
    LET file == PatchFile(Dest, HdiffAfterInstall[ExpectedEntry(n)])
    IN  IF (n - 1) % 4 = 2 THEN PatchPatch(file) ELSE file

\* C12: the patch pass handles the lines of hdifffiles.txt one at a time in
\* list order, and for each line in the order: patch engine call, delete of
\* the original, delete of the .hdiff, rename of the .hdiff_patched over the
\* original; nothing of line i+1 happens before the rename of line i, and the
\* engine is called at most once per line.  The engine's output is at
\* <file>.hdiff_patched when the deletes start.
C12_PatchPassOrder ==
    /\ \A n \in 1..Len(PatchPassLog) :
         /\ ExpectedEntry(n) <= Len(HdiffAfterInstall)
         /\ PatchPassLog[n].ev = ExpectedKind(n)
         /\ PatchPassLog[n].idx = ExpectedEntry(n)
         /\ PatchPassLog[n].path = ExpectedPath(n)
         /\ n < Len(PatchPassLog) => PatchPassLog[n].ok
    /\ \A i \in 1..MaxEntries + 1 :
         Cardinality({j \in PatchEvents : log[j].idx = i}) <= 1
    /\ pc = "remove_file" =>
         /\ Exists(fs, At(CurOutput))
         /\ fs[At(CurOutput)] = Patched(fs[At(CurFile)])

\* a pass over a full list, all four events of every line done
C12_Witness ==
    /\ InTransaction /\ HasHdiffList
    /\ Len(HdiffAfterInstall) = MaxEntries
    /\ Len(PatchPassLog) = 4 * MaxEntries
    /\ \A n \in 1..Len(PatchPassLog) : PatchPassLog[n].ok
    /\ Returned /\ ret = Ok

---------------------------------------------------------------------------
(* C13 *)

\* line i of the hdiff list has been patched and renamed in this call
Processed(i) ==
    \E j \in 1..Len(log) :
        log[j].ev = "rename" /\ log[j].idx = i /\ log[j].ok

HdiffListGone == ~Exists(fs, At(HdiffList(Dest)))

\* C13: hdifffiles.txt is deleted only after every listed entry has been
\* patched and renamed.  In a transaction that found hdifffiles.txt after
\* the Installer step: once the list is absent no listed entry has a
\* <file>.hdiff or <file>.hdiff_patched left, and while some listed entry is
\* unprocessed the list still exists.
C13_ListDeletedLast ==
    (InTransaction /\ HasHdiffList) =>
        /\ HdiffListGone =>
             \A i \in Entries :
                 /\ Processed(i)
                 /\ ~Exists(fs, PatchPatch(EntryFile(i)))
                 /\ ~Exists(fs, PatchOutput(EntryFile(i)))
        /\ (\E i \in Entries : ~Processed(i)) => ~HdiffListGone

C13_Witness ==
    /\ InTransaction /\ HasHdiffList
    /\ Len(HdiffAfterInstall) = MaxEntries
    /\ HdiffListGone
    /\ pc = "read_delete"

---------------------------------------------------------------------------
(* C14 *)

\* the deletes of the cleanup pass: remove_file on a line of deletefiles.txt
CleanupDeletes ==
    {j \in 1..Len(log) :
        /\ log[j].ev = "remove"
        /\ log[j].idx \in 1..Len(DeleteAfterInstall)
        /\ log[j].path = DeleteTarget(Dest, DeleteAfterInstall[log[j].idx])}

\* the removal of deletefiles.txt itself
DeleteListRemovals ==
    {j \in 1..Len(log) : /\ log[j].ev = "remove"
                         /\ log[j].idx = 0
                         /\ log[j].path = DeleteList(Dest)}

SameAsAfterInstall(p) ==
    /\ Exists(fs, p) <=> Exists(snapInst, p)
    /\ Exists(fs, p) => fs[p] = snapInst[p]

\* C14: the cleanup pass starts only after the patch pass has finished
\* without failure.  When the transaction returns Err(HdiffPatch),
\* hdifffiles.txt still exists, the cleanup pass has done nothing,
\* deletefiles.txt is unchanged and so is every file it lists (the files the
\* patch pass itself rewrote before the failure set aside); and where both
\* control files are present no delete of the cleanup pass precedes the
\* deletion of hdifffiles.txt.
C14_CleanupAfterPatchPass ==
    InTransaction =>
        /\ (Returned /\ ret = Err("HdiffPatch")) =>
             /\ Exists(fs, At(HdiffList(Dest)))
             /\ HasDeleteList =>
                  /\ CleanupDeletes = {} /\ DeleteListRemovals = {}
                  /\ SameAsAfterInstall(At(DeleteList(Dest)))
                  /\ \A l \in 1..Len(DeleteAfterInstall) :
                       \A p \in {At(DeleteAfterInstall[l]),
                                 At(Join(Dest, DeleteAfterInstall[l]))} :
                           \/ SameAsAfterInstall(p)
                           \/ \E i \in Entries :
                                SliceInBounds(HdiffAfterInstall[i])
                                  /\ p = EntryFile(i) /\ Processed(i)
        /\ (HasHdiffList /\ HasDeleteList) =>
             /\ \A j \in CleanupDeletes \cup DeleteListRemovals :
                  \E r \in HdiffListRemovals : r < j /\ log[r].ok
             /\ pc \in {"delete", "remove_deletelist"} => HdiffListGone

\* an abort at the second entry, with a delete list waiting
C14_Witness ==
    /\ InTransaction /\ Returned /\ ret = Err("HdiffPatch")
    /\ EngineFailedAt(2)
    /\ HasDeleteList /\ Len(DeleteAfterInstall) > 0
    /\ Exists(snapInst, At(Join(Dest, DeleteAfterInstall[1])))

---------------------------------------------------------------------------
(* C15 *)

DeleteLines == 1..Len(DeleteAfterInstall)
DeletedAt(l) == \E j \in CleanupDeletes : log[j].idx = l /\ log[j].ok
CleanupFailedAt(k) == \E j \in CleanupDeletes : log[j].idx = k /\ ~log[j].ok

\* C15: in the cleanup pass a failed delete of a listed file is fatal.  The
\* transaction stops at that entry and returns neither Ok nor Err; the
\* entries before it have been deleted, the entries after it have not been
\* attempted and their files are as they were (unless an earlier entry or the
\* patch pass named the same file), and deletefiles.txt still exists.
\* deletefiles.txt is deleted only after the delete of every listed entry
\* has succeeded.  The file of an entry is the one remove_file addresses.
C15_FailedDeleteIsFatal ==
    (InTransaction /\ HasDeleteList) =>
        /\ \A k \in DeleteLines : CleanupFailedAt(k) =>
             /\ pc = "panicked" /\ ret = Panicked
             /\ log[Len(log)] = Event("remove", DeleteTarget(Dest, DeleteAfterInstall[k]), k, FALSE)
             /\ \A l \in 1..(k - 1) :
                  DeletedAt(l) /\ ~Exists(fs, At(DeleteAfterInstall[l]))
             /\ \A l \in (k + 1)..Len(DeleteAfterInstall) :
                  /\ \A j \in CleanupDeletes : log[j].idx # l
                  /\ \/ SameAsAfterInstall(At(DeleteAfterInstall[l]))
                     \/ \E e \in 1..(k - 1) : DeleteAfterInstall[e] = DeleteAfterInstall[l]
                     \/ \E i \in Entries :
                          SliceInBounds(HdiffAfterInstall[i])
                            /\ At(DeleteAfterInstall[l]) = EntryFile(i) /\ Processed(i)
             /\ Exists(fs, At(DeleteList(Dest)))
             /\ DeleteListRemovals = {}
        /\ \A r \in DeleteListRemovals : \A l \in DeleteLines : DeletedAt(l)
        /\ ~Exists(fs, At(DeleteList(Dest))) => \A l \in DeleteLines : DeletedAt(l)

\* the first listed file is deleted, the second one does not exist
C15_Witness ==
    /\ InTransaction /\ HasDeleteList
    /\ Len(DeleteAfterInstall) = 2
    /\ DeleteAfterInstall[1] # DeleteAfterInstall[2]
    /\ DeletedAt(1) /\ CleanupFailedAt(2)

---------------------------------------------------------------------------
(* C17 *)

\* the patch pass has not removed hdifffiles.txt yet
InPatchPass ==
    /\ pc \notin {"installer_new", "installer_install"}
    /\ \A r \in HdiffListRemovals : ~log[r].ok
PatchStarted(i) == \E j \in PatchEvents : log[j].idx = i

\* C17: wherever the patch pass stops, the state can be resumed.  With
\* hdifffiles.txt listing distinct entries that each had <file> and
\* <file>.hdiff after the Installer step, in every state of the pass
\* (return with HdiffPatch and fatal stop included) hdifffiles.txt still
\* exists, every entry the pass has not started still has its <file>,
\* unchanged, and its <file>.hdiff, and every listed entry has at least one
\* of <file> and <file>.hdiff_patched.
C17_PatchPassResumable ==
    (HdiffSetup /\ InPatchPass) =>
        /\ Exists(fs, At(HdiffList(Dest)))
        /\ fs[At(HdiffList(Dest))] = HdiffAfterInstall
        /\ \A i \in Entries : ~PatchStarted(i) => Untouched(i)
        /\ \A i \in Entries :
             Exists(fs, EntryFile(i)) \/ Exists(fs, PatchOutput(EntryFile(i)))

\* between the two deletes of the first entry, the second one not started
C17_Witness ==
    /\ HdiffSetup /\ InPatchPass
    /\ Len(HdiffAfterInstall) = MaxEntries
    /\ pc = "remove_patch" /\ idx = 1
    /\ ~Exists(fs, EntryFile(1)) /\ Exists(fs, PatchOutput(EntryFile(1)))

---------------------------------------------------------------------------
(* Two concurrent transactions on one destination *)

\* the variables that belong to one caller
Locals ==
    [pc |-> pc, call |-> call, params |-> params, ret |-> ret,
     files |-> files, idx |-> idx, snap |-> snap, snapInst |-> snapInst,
     instOk |-> instOk, invoked |-> invoked, log |-> log, prev |-> prev,
     callsLeft |-> callsLeft]

CanMove(l) == l.pc # "panicked" /\ (l.pc = "idle" => l.callsLeft > 0)

\* install_to_by takes no lock: between any two file-system calls of one
\* caller the other caller may run.  The running caller is parked and the
\* parked one runs on.
Yield ==
    /\ IsSome(parked)
    /\ CanMove(Unwrap(parked))
    /\ LET o == Unwrap(parked) IN
         /\ pc' = o.pc
         /\ call' = o.call
         /\ params' = o.params
         /\ ret' = o.ret
         /\ files' = o.files
         /\ idx' = o.idx
         /\ snap' = o.snap
         /\ snapInst' = o.snapInst
         /\ instOk' = o.instOk
         /\ invoked' = o.invoked
         /\ log' = o.log
         /\ prev' = o.prev
         /\ callsLeft' = o.callsLeft
    /\ parked' = Some(Locals)
    /\ UNCHANGED <<diff, cwd, archive, fs>>

\* the collaborators doing their work whenever they can
InstallerNewOk == InstallerNew /\ pc' = "installer_install"
InstallerInstallDone == InstallerInstall /\ instOk'
PatchEntryReliable ==
    /\ PatchEntry
    /\ (/\ SliceInBounds(files[idx])
        /\ TRUE \in PatchOutcomes(fs, Resolve(cwd, CurFile), Resolve(cwd, CurPatch)))
         => pc' = "remove_file"

\* a resolution, archive and tree on which one transaction alone returns Ok
AloneOk ==
    InstallToBy(fs, cwd, archive, Unwrap(diff.unpacking_path),
                TRUE, TRUE, 0).ret = Ok

InitPair ==
    /\ Start(RetryDiffs, Archives, InitialTrees, 1)
    /\ AloneOk
    /\ parked = Some(Locals)

NextPair ==
    \/ Yield
    \/ Call_install
    \/ InstallerNewOk
    \/ InstallerInstallDone
    \/ ReadHdiffList
    \/ PatchEntryReliable
    \/ RemoveOriginal
    \/ RemovePatch
    \/ RenameOutput
    \/ RemoveHdiffList
    \/ ReadDeleteList
    \/ DeleteEntry
    \/ RemoveDeleteList

SpecPair == InitPair /\ [][NextPair]_vars

---------------------------------------------------------------------------
(* C16 *)

Other == Unwrap(parked)
HasStarted(l) == l.call # NoCall
HasFailed(l) == l.ret \in {Panicked, Err("HdiffPatch")}
InBody(l) == l.pc \notin {"idle", "panicked"}

\* C16: two transactions on the same destination, the patch engine doing its
\* work whenever its inputs exist, each transaction returning Ok when it runs
\* alone.  Run alone a transaction does return Ok, and the only results a
\* transaction ever has are Ok, a fatal local I/O failure and an HdiffPatch
\* error; a failure is reached only in runs in which the other transaction
\* has run as well (the witness is such an interleaving).
C16_FailureOnlyByInterference ==
    IsSome(parked) =>
        /\ \A l \in {Locals, Other} :
             l.ret \in {NoRet, Ok, Panicked, Err("HdiffPatch")}
        /\ (HasStarted(Locals) /\ ~HasStarted(Other) /\ pc \in {"idle", "panicked"})
             => ret = Ok
        /\ HasFailed(Locals) => HasStarted(Other)
        /\ HasFailed(Other) => HasStarted(Locals)

\* both transactions have read hdifffiles.txt and patched the same entry;
\* one has deleted the original, the other one fails to delete it
C16_Witness ==
    /\ IsSome(parked)
    /\ ~IsSome(archive.del)
    /\ ret = Panicked
    /\ Len(files) > 0
    /\ log[Len(log)] = Event("remove", CurFile, idx, FALSE)
    /\ InBody(Other) /\ Other.files = files /\ Other.idx = idx
    /\ Other.pc = "remove_patch"

\* one transaction finds an input of an entry gone and returns HdiffPatch
C16_WitnessHdiffPatch ==
    /\ IsSome(parked)
    /\ ret = Err("HdiffPatch")
    /\ InBody(Other)

---------------------------------------------------------------------------
(* Sequences of calls of any method on one resolution *)

SeqArchives ==
    {[hdiff |-> Some(<<HdiffLine("a")>>), del |-> None],
     [hdiff |-> None, del |-> Some(<<"a">>)]}
SeqTrees == {t \in InitialTrees : \A n \in Names : Exists(t, Join("/game", n))}
InitSeq ==
    /\ Start(TransactionDiffs, SeqArchives, SeqTrees, MaxCalls)
    /\ parked = None
SpecSeq == InitSeq /\ [][Next]_vars

---------------------------------------------------------------------------
(* C18 *)

\* C18: no operation changes the resolution it is called on: over every
\* step of every sequence of calls (download_to, which takes &mut self,
\* included) diff keeps its value, and so do the results of get_size and
\* unpacking_path.
C18_ResolutionUnchanged ==
    [][/\ diff' = diff
       /\ get_size(diff') = get_size(diff)
       /\ unpacking_path(diff') = unpacking_path(diff)]_vars

\* download_to has returned Ok after an earlier transaction on the same value
C18_Witness ==
    /\ Returned
    /\ call.op = "download_to" /\ ret = Ok
    /\ prev.call.op \in {"install", "install_to", "install_to_by"}
    /\ prev.ret = Ok

---------------------------------------------------------------------------
(* hdifffiles.txt with lines of any shape *)

\* a record written without the space after the colon, its name starting
\* with a two-byte character: byte 16 lies inside that character
WideLine == "{\"remoteName\":\"" \o Wide \o "a\"}"
\* a line whose byte len()-2 lies inside a two-byte character
WideTailLine == "{\"remoteName\": \"ab" \o Wide \o "}"
AnyLines ==
    {HdiffLine(n) : n \in Names}
    \cup {"", "{\"remoteName\": \"a", HdiffLine(""), WideLine, WideTailLine}

LinesArchives ==
    [hdiff : {Some(l) : l \in LineSeqs(AnyLines)},
     del   : {None, Some(<<"a">>)}]
InitLines ==
    /\ Start(BodyDiffs, LinesArchives, SeqTrees, 1)
    /\ parked = None
SpecLines == InitLines /\ [][NextRetry]_vars

---------------------------------------------------------------------------
(* C19 *)

\* the UTF-8 bytes of a string; C3 A9 are the two bytes of U+00E9
RECURSIVE Bytes(_)
Bytes(s) ==
    IF s = "" THEN <<>>
    ELSE (IF SubSeq(s, 1, 1) = Wide THEN <<"C3", "A9">> ELSE <<SubSeq(s, 1, 1)>>)
         \o Bytes(SubSeq(s, 2, Len(s)))

LineBytes(i) == Bytes(HdiffAfterInstall[i])
\* byte offset b does not point into the middle of a character
OnBoundary(bs, b) == b = Len(bs) \/ bs[b + 1] # "A9"
LongEnough(i) == Len(LineBytes(i)) >= 18
Sliceable(i) ==
    /\ LongEnough(i)
    /\ OnBoundary(LineBytes(i), 16)
    /\ OnBoundary(LineBytes(i), Len(LineBytes(i)) - 2)

\* the bytes of <path>/<bytes 16..L-3 of line i>
ExpectedFileBytes(i) ==
    Bytes(Dest) \o <<"/">> \o SubSeq(LineBytes(i), 17, Len(LineBytes(i)) - 2)

\* the patch pass is at line i
AtLine(i) ==
    /\ InPatchPass
    /\ pc # "read_hdiff"
    /\ idx = i

\* line i is cut as given: the patch engine is called with the expected path
CutByOffsets(i) ==
    /\ AtLine(i) /\ pc # "patch" => PatchStarted(i)
    /\ \A j \in PatchEvents :
         log[j].idx = i => Bytes(log[j].path) = ExpectedFileBytes(i)

\* line i stops the transaction: a fatal stop at that line, before the patch
\* engine is called for it, neither skipped nor returned as an Err, the
\* entries before it processed and hdifffiles.txt in place
FatalAtLine(i) ==
    /\ ~PatchStarted(i)
    /\ \A j \in PatchEvents : log[j].idx < i
    /\ HdiffListRemovals = {}
    /\ AtLine(i) /\ pc # "patch" =>
         /\ pc = "panicked" /\ ret = Panicked
         /\ \A e \in 1..(i - 1) : Processed(e)
         /\ Exists(fs, At(HdiffList(Dest)))
         /\ fs[At(HdiffList(Dest))] = HdiffAfterInstall

\* C19 as claimed: a line of L >= 18 bytes is cut at bytes 16..L-3, a line
\* of L < 18 bytes stops the transaction fatally at that line.
C19_CutByLength ==
    (InTransaction /\ HasHdiffList) =>
        \A i \in Entries :
            IF LongEnough(i) THEN CutByOffsets(i) ELSE FatalAtLine(i)

\* C19, amended: a line of L >= 18 bytes whose byte offsets 16 and L-2 are
\* character boundaries is cut at bytes 16..L-3; any other line (L < 18, the
\* empty line included, or an offset inside a multi-byte character) stops
\* the transaction fatally at that line, before the patch engine is called
\* for it, neither skipped nor returned as an Err, leaving the entries
\* before it patched and hdifffiles.txt in place.
C19_CutByOffsets ==
    (InTransaction /\ HasHdiffList) =>
        \A i \in Entries :
            IF Sliceable(i) THEN CutByOffsets(i) ELSE FatalAtLine(i)

\* a well-formed first line has been patched, the second line is too short
C19_Witness ==
    /\ InTransaction /\ HasHdiffList
    /\ Len(HdiffAfterInstall) = 2
    /\ Sliceable(1) /\ Processed(1)
    /\ ~LongEnough(2)
    /\ AtLine(2) /\ pc = "panicked"

====
